---------------------------- MODULE Spec2Model ----------------------------
(***************************************************************************)
(* Model of the magi-github plugin (src/src/lib.rs): the four exported    *)
(* entry points describe, config_schema, init and process, the two HTTP   *)
(* helpers github_get / github_post and the eight tool handlers.          *)
(*                                                                         *)
(* Representation.                                                         *)
(*  - A text (Rust String / &str) is a sequence of one-character strings, *)
(*    so that format!, replace, trim_matches and starts_with are computed *)
(*    character by character.                                              *)
(*  - A JSON value (serde_json::Value, and magi_pdk::DataType which is    *)
(*    built from it) is a record tagged by t: null, bool, int, str, arr,  *)
(*    obj.  An object's m is a function whose domain is the set of keys   *)
(*    present.  Option::None is the record None.                           *)
(*  - The plugin keeps no state of its own.  The variables are the host   *)
(*    configuration store it reads, the invocation in flight (its input,  *)
(*    the HTTP requests it issued, the responses the transport gave, its  *)
(*    log lines and the value it returns) and the history needed to state *)
(*    properties over sequences of invocations.                            *)
(***************************************************************************)
EXTENDS Integers, Sequences, FiniteSets, TLC

VARIABLES
    store,       \* what magi_pdk::get_config() yields: None (Err) or a JSON value
    initResult,  \* history: "none", "error" or "success", the outcome of the last init
    calls,       \* history: number of process invocations so far
    httpCalls,   \* history: number of outbound HTTP requests so far
    inv          \* the invocation in flight, [op |-> "idle"] between invocations

vars == <<store, initResult, calls, httpCalls, inv>>

---------------------------------------------------------------------------
\* Bounds of the model.

\* Number of process invocations in a behaviour.
MaxCalls == 2
\* Pull request numbers range over -1 .. MaxNum.
MaxNum == 10
\* Search queries are texts of at most MaxLen characters.
MaxLen == 2

---------------------------------------------------------------------------
\* JSON values and Option.

None == [t |-> "none"]
JNull == [t |-> "null"]
JBool(b) == [t |-> "bool", b |-> b]
JInt(n) == [t |-> "int", n |-> n]
JStr(s) == [t |-> "str", s |-> s]
JArr(a) == [t |-> "arr", a |-> a]
JObj(m) == [t |-> "obj", m |-> m]

\* DataType::get(key): Some(value) when v is an object holding key, else None.
get(v, k) ==
    IF v.t = "obj" THEN (IF k \in DOMAIN v.m THEN v.m[k] ELSE None) ELSE None

\* opt.and_then(|v| v.as_str()).unwrap_or(d)
str_or(opt, d) ==
    IF opt.t = "str" THEN opt.s ELSE d

\* opt.cloned().unwrap_or(DataType::Null)
value_or_null(opt) ==
    IF opt.t = "none" THEN JNull ELSE opt

\* FnResult: Ok(Json(v)) and Err(e).
Ok(v) == [kind |-> "ok", value |-> v]
Err(e) == [kind |-> "err", error |-> e]

\* json!({"error": msg})
error_object(msg) ==
    JObj([error |-> JStr(msg)])

---------------------------------------------------------------------------
\* Text operations.

starts_with(s, p) ==
    Len(s) >= Len(p) /\ SubSeq(s, 1, Len(p)) = p

\* str::is_empty
is_empty(s) ==
    Len(s) = 0

\* A variant that leaves the spaces in place (not the source's behaviour).
replace_none(s) ==
    s

\* query.replace(' ', "+")
replace_space(s) ==
    [i \in 1..Len(s) |-> IF s[i] = " " THEN "+" ELSE s[i]]

RECURSIVE trim_start(_)
trim_start(s) ==
    IF Len(s) > 0 /\ s[1] = "\"" THEN trim_start(Tail(s)) ELSE s

RECURSIVE trim_end(_)
trim_end(s) ==
    IF Len(s) > 0 /\ s[Len(s)] = "\"" THEN trim_end(SubSeq(s, 1, Len(s) - 1)) ELSE s

\* A variant that strips nothing (not the source's behaviour).
trim_keep(s) ==
    s

\* number.trim_matches('"'): every leading and trailing quote is removed.
trim_matches(s) ==
    trim_end(trim_start(s))

DigitChar(d) ==
    <<"0", "1", "2", "3", "4", "5", "6", "7", "8", "9">>[d + 1]

RECURSIVE NatText(_)
NatText(n) ==
    IF n < 10 THEN <<DigitChar(n)>> ELSE NatText(n \div 10) \o <<DigitChar(n % 10)>>

\* Display of an integer: its decimal digits, with a leading '-' when negative.
IntText(n) ==
    IF n < 0 THEN <<"-">> \o NatText(0 - n) ELSE NatText(n)

\* serde_json's escaping of a string's characters.
RECURSIVE escape(_)
escape(s) ==
    IF Len(s) = 0 THEN <<>>
    ELSE (IF s[1] \in {"\"", "\\"} THEN <<"\\", s[1]>> ELSE <<s[1]>>) \o escape(Tail(s))

---------------------------------------------------------------------------
\* String literals of the source, as texts.

\* "github"
D_name ==
    <<"g","i","t","h","u","b">>
\* "0.1.0"
D_version ==
    <<"0",".","1",".","0">>
\* "GitHub API integration for repos, issues, PRs, and code search"
D_description ==
    <<"G","i","t","H","u","b"," ","A","P","I"," ","i","n","t","e","g","r","a","t","i","o","n"," ","f","o","r"," ","r","e","p","o","s",","," ","i","s","s","u","e","s",","," ","P","R","s",","," ","a","n","d"," ","c","o","d","e"," ","s","e","a","r","c","h">>
\* "mcp"
D_label ==
    <<"m","c","p">>
\* "list_repos"
D_list_repos ==
    <<"l","i","s","t","_","r","e","p","o","s">>
\* "get_repo"
D_get_repo ==
    <<"g","e","t","_","r","e","p","o">>
\* "list_issues"
D_list_issues ==
    <<"l","i","s","t","_","i","s","s","u","e","s">>
\* "create_issue"
D_create_issue ==
    <<"c","r","e","a","t","e","_","i","s","s","u","e">>
\* "list_prs"
D_list_prs ==
    <<"l","i","s","t","_","p","r","s">>
\* "get_pr"
D_get_pr ==
    <<"g","e","t","_","p","r">>
\* "get_file"
D_get_file ==
    <<"g","e","t","_","f","i","l","e">>
\* "search_code"
D_search_code ==
    <<"s","e","a","r","c","h","_","c","o","d","e">>
\* "List repositories for a user or org"
D_list_repos_desc ==
    <<"L","i","s","t"," ","r","e","p","o","s","i","t","o","r","i","e","s"," ","f","o","r"," ","a"," ","u","s","e","r"," ","o","r"," ","o","r","g">>
\* "Get repository details"
D_get_repo_desc ==
    <<"G","e","t"," ","r","e","p","o","s","i","t","o","r","y"," ","d","e","t","a","i","l","s">>
\* "List issues for a repository"
D_list_issues_desc ==
    <<"L","i","s","t"," ","i","s","s","u","e","s"," ","f","o","r"," ","a"," ","r","e","p","o","s","i","t","o","r","y">>
\* "Create a new issue"
D_create_issue_desc ==
    <<"C","r","e","a","t","e"," ","a"," ","n","e","w"," ","i","s","s","u","e">>
\* "List pull requests for a repository"
D_list_prs_desc ==
    <<"L","i","s","t"," ","p","u","l","l"," ","r","e","q","u","e","s","t","s"," ","f","o","r"," ","a"," ","r","e","p","o","s","i","t","o","r","y">>
\* "Get pull request details"
D_get_pr_desc ==
    <<"G","e","t"," ","p","u","l","l"," ","r","e","q","u","e","s","t"," ","d","e","t","a","i","l","s">>
\* "Get file contents from a repository"
D_get_file_desc ==
    <<"G","e","t"," ","f","i","l","e"," ","c","o","n","t","e","n","t","s"," ","f","r","o","m"," ","a"," ","r","e","p","o","s","i","t","o","r","y">>
\* "Search code across repositories"
D_search_code_desc ==
    <<"S","e","a","r","c","h"," ","c","o","d","e"," ","a","c","r","o","s","s"," ","r","e","p","o","s","i","t","o","r","i","e","s">>
\* "object"
S_object ==
    <<"o","b","j","e","c","t">>
\* "string"
S_string ==
    <<"s","t","r","i","n","g">>
\* "GitHub personal access token"
S_token_desc ==
    <<"G","i","t","H","u","b"," ","p","e","r","s","o","n","a","l"," ","a","c","c","e","s","s"," ","t","o","k","e","n">>
\* "Default repository owner (user or org)"
S_owner_desc ==
    <<"D","e","f","a","u","l","t"," ","r","e","p","o","s","i","t","o","r","y"," ","o","w","n","e","r"," ","(","u","s","e","r"," ","o","r"," ","o","r","g",")">>
\* "github_token"
S_github_token ==
    <<"g","i","t","h","u","b","_","t","o","k","e","n">>
\* "github_token is required"
E_token_required ==
    <<"g","i","t","h","u","b","_","t","o","k","e","n"," ","i","s"," ","r","e","q","u","i","r","e","d">>
\* "GitHub plugin initialized"
L_initialized ==
    <<"G","i","t","H","u","b"," ","p","l","u","g","i","n"," ","i","n","i","t","i","a","l","i","z","e","d">>
\* "list_repos"
T_list_repos ==
    <<"l","i","s","t","_","r","e","p","o","s">>
\* "get_repo"
T_get_repo ==
    <<"g","e","t","_","r","e","p","o">>
\* "list_issues"
T_list_issues ==
    <<"l","i","s","t","_","i","s","s","u","e","s">>
\* "create_issue"
T_create_issue ==
    <<"c","r","e","a","t","e","_","i","s","s","u","e">>
\* "list_prs"
T_list_prs ==
    <<"l","i","s","t","_","p","r","s">>
\* "get_pr"
T_get_pr ==
    <<"g","e","t","_","p","r">>
\* "get_file"
T_get_file ==
    <<"g","e","t","_","f","i","l","e">>
\* "search_code"
T_search_code ==
    <<"s","e","a","r","c","h","_","c","o","d","e">>
\* "unknown tool: "
E_unknown_tool ==
    <<"u","n","k","n","o","w","n"," ","t","o","o","l",":"," ">>
\* "https://"
U_https ==
    <<"h","t","t","p","s",":","/","/">>
\* "https://api.github.com"
U_api ==
    <<"h","t","t","p","s",":","/","/","a","p","i",".","g","i","t","h","u","b",".","c","o","m">>
\* "Bearer "
H_bearer ==
    <<"B","e","a","r","e","r"," ">>
\* "application/vnd.github+json"
H_accept ==
    <<"a","p","p","l","i","c","a","t","i","o","n","/","v","n","d",".","g","i","t","h","u","b","+","j","s","o","n">>
\* "magi-github-plugin/0.1"
H_user_agent ==
    <<"m","a","g","i","-","g","i","t","h","u","b","-","p","l","u","g","i","n","/","0",".","1">>
\* "2022-11-28"
H_api_version ==
    <<"2","0","2","2","-","1","1","-","2","8">>
\* "application/json"
H_content_type ==
    <<"a","p","p","l","i","c","a","t","i","o","n","/","j","s","o","n">>
\* "JSON parse error: "
E_json_parse ==
    <<"J","S","O","N"," ","p","a","r","s","e"," ","e","r","r","o","r",":"," ">>
\* "/user/repos?per_page=30&sort=updated"
P_user_repos ==
    <<"/","u","s","e","r","/","r","e","p","o","s","?","p","e","r","_","p","a","g","e","=","3","0","&","s","o","r","t","=","u","p","d","a","t","e","d">>
\* "/users/"
P_users ==
    <<"/","u","s","e","r","s","/">>
\* "/repos?per_page=30&sort=updated"
P_repos_query ==
    <<"/","r","e","p","o","s","?","p","e","r","_","p","a","g","e","=","3","0","&","s","o","r","t","=","u","p","d","a","t","e","d">>
\* "/repos/"
P_repos ==
    <<"/","r","e","p","o","s","/">>
\* "/"
P_slash ==
    <<"/">>
\* "/issues?state="
P_issues_state ==
    <<"/","i","s","s","u","e","s","?","s","t","a","t","e","=">>
\* "&per_page=30"
P_per_page_30 ==
    <<"&","p","e","r","_","p","a","g","e","=","3","0">>
\* "/issues"
P_issues ==
    <<"/","i","s","s","u","e","s">>
\* "/pulls?state="
P_pulls_state ==
    <<"/","p","u","l","l","s","?","s","t","a","t","e","=">>
\* "/pulls/"
P_pulls ==
    <<"/","p","u","l","l","s","/">>
\* "/contents/"
P_contents ==
    <<"/","c","o","n","t","e","n","t","s","/">>
\* "?ref="
P_ref ==
    <<"?","r","e","f","=">>
\* "/search/code?q="
P_search ==
    <<"/","s","e","a","r","c","h","/","c","o","d","e","?","q","=">>
\* "&per_page=20"
P_per_page_20 ==
    <<"&","p","e","r","_","p","a","g","e","=","2","0">>
\* "open"
V_open ==
    <<"o","p","e","n">>
\* "main"
V_main ==
    <<"m","a","i","n">>
\* "null"
V_null ==
    <<"n","u","l","l">>
\* "true"
V_true ==
    <<"t","r","u","e">>
\* "false"
V_false ==
    <<"f","a","l","s","e">>
\* "repo is required": a message naming only repo (not a literal of the source).
E_repo ==
    <<"r","e","p","o"," ","i","s"," ","r","e","q","u","i","r","e","d">>
\* "owner and repo are required"
E_owner_repo ==
    <<"o","w","n","e","r"," ","a","n","d"," ","r","e","p","o"," ","a","r","e"," ","r","e","q","u","i","r","e","d">>
\* "owner, repo, and title are required"
E_owner_repo_title ==
    <<"o","w","n","e","r",","," ","r","e","p","o",","," ","a","n","d"," ","t","i","t","l","e"," ","a","r","e"," ","r","e","q","u","i","r","e","d">>
\* "owner, repo, and number are required"
E_owner_repo_number ==
    <<"o","w","n","e","r",","," ","r","e","p","o",","," ","a","n","d"," ","n","u","m","b","e","r"," ","a","r","e"," ","r","e","q","u","i","r","e","d">>
\* "owner, repo, and path are required"
E_owner_repo_path ==
    <<"o","w","n","e","r",","," ","r","e","p","o",","," ","a","n","d"," ","p","a","t","h"," ","a","r","e"," ","r","e","q","u","i","r","e","d">>
\* "query is required"
E_query ==
    <<"q","u","e","r","y"," ","i","s"," ","r","e","q","u","i","r","e","d">>
\* Texts the host supplies (inputs of the model, not literals of the source).

\* "delete_repo"
X_delete_repo ==
    <<"d","e","l","e","t","e","_","r","e","p","o">>
\* "acme"
X_owner ==
    <<"a","c","m","e">>
\* "r1"
X_repo ==
    <<"r","1">>
\* "closed"
X_closed ==
    <<"c","l","o","s","e","d">>
\* "Bug"
X_title ==
    <<"B","u","g">>
\* "text"
X_body ==
    <<"t","e","x","t">>
\* "src/a.rs"
X_path ==
    <<"s","r","c","/","a",".","r","s">>
\* "dev"
X_branch ==
    <<"d","e","v">>
\* "ghp_1"
X_token ==
    <<"g","h","p","_","1">>
\* "connection refused"
X_refused ==
    <<"c","o","n","n","e","c","t","i","o","n"," ","r","e","f","u","s","e","d">>
\* "expected value at line 1 column 1"
X_expected ==
    <<"e","x","p","e","c","t","e","d"," ","v","a","l","u","e"," ","a","t"," ","l","i","n","e"," ","1"," ","c","o","l","u","m","n"," ","1">>
\* "Not Found"
X_not_found ==
    <<"N","o","t"," ","F","o","u","n","d">>

\* v.to_json().to_string(): the JSON text of a scalar.
to_string(v) ==
    CASE v.t = "null" -> V_null
      [] v.t = "int" -> IntText(v.n)
      [] v.t = "bool" -> (IF v.b THEN V_true ELSE V_false)
      [] v.t = "str" -> <<"\"">> \o escape(v.s) \o <<"\"">>

---------------------------------------------------------------------------
\* Plugin exports: describe, config_schema.

tool_entry(name, description) ==
    JObj([name |-> JStr(name), description |-> JStr(description)])

\* A variant of the tools list without its search_code entry (not the source's).
describe_tools_short ==
    << tool_entry(D_list_repos, D_list_repos_desc),
       tool_entry(D_get_repo, D_get_repo_desc),
       tool_entry(D_list_issues, D_list_issues_desc),
       tool_entry(D_create_issue, D_create_issue_desc),
       tool_entry(D_list_prs, D_list_prs_desc),
       tool_entry(D_get_pr, D_get_pr_desc),
       tool_entry(D_get_file, D_get_file_desc) >>

describe_tools ==
    << tool_entry(D_list_repos, D_list_repos_desc),
       tool_entry(D_get_repo, D_get_repo_desc),
       tool_entry(D_list_issues, D_list_issues_desc),
       tool_entry(D_create_issue, D_create_issue_desc),
       tool_entry(D_list_prs, D_list_prs_desc),
       tool_entry(D_get_pr, D_get_pr_desc),
       tool_entry(D_get_file, D_get_file_desc),
       tool_entry(D_search_code, D_search_code_desc) >>

describe ==
    [requests |-> <<>>, logs |-> <<>>,
     result |-> Ok(JObj([name |-> JStr(D_name),
                         version |-> JStr(D_version),
                         description |-> JStr(D_description),
                         label |-> JStr(D_label),
                         tools |-> JArr(describe_tools)]))]

config_schema ==
    [requests |-> <<>>, logs |-> <<>>,
     result |-> Ok(JObj([type |-> JStr(S_object),
                         properties |-> JObj([
                             github_token |-> JObj([type |-> JStr(S_string),
                                                    description |-> JStr(S_token_desc)]),
                             default_owner |-> JObj([type |-> JStr(S_string),
                                                     description |-> JStr(S_owner_desc)])]),
                         required |-> JArr(<<JStr(S_github_token)>>)]))]

---------------------------------------------------------------------------
\* init

\* A variant that also refuses an empty token (not the source's behaviour).
init_strict(input) ==
    LET config == value_or_null(get(input, "config"))
        token == get(config, "github_token")
    IN  IF token.t # "str" \/ is_empty(str_or(token, <<>>))
        THEN [requests |-> <<>>, logs |-> <<>>,
              result |-> Ok(error_object(E_token_required))]
        ELSE [requests |-> <<>>, logs |-> <<L_initialized>>,
              result |-> Ok(JObj([success |-> JBool(TRUE)]))]

init(input) ==
    LET config == value_or_null(get(input, "config"))
    IN  IF get(config, "github_token").t # "str"
        THEN [requests |-> <<>>, logs |-> <<>>,
              result |-> Ok(error_object(E_token_required))]
        ELSE [requests |-> <<>>, logs |-> <<L_initialized>>,
              result |-> Ok(JObj([success |-> JBool(TRUE)]))]

---------------------------------------------------------------------------
\* GitHub API helpers.  resp is what the host's HTTP transport does with the
\* request: [kind |-> "fail", error |-> e] when http::request returns Err(e),
\* [kind |-> "body", json |-> TRUE, value |-> v] when the response body is the
\* JSON text of v, [kind |-> "body", json |-> FALSE, detail |-> d] when the body
\* is not JSON and serde_json reports d.

parse_body(resp) ==
    IF resp.kind = "fail" THEN Err(resp.error)
    ELSE IF resp.json THEN Ok(resp.value)
    ELSE Err(E_json_parse \o resp.detail)

get_request(token, path) ==
    [method |-> "GET",
     url |-> IF starts_with(path, U_https) THEN path ELSE U_api \o path,
     headers |-> ("Authorization" :> (H_bearer \o token))
                 @@ ("Accept" :> H_accept)
                 @@ ("User-Agent" :> H_user_agent)
                 @@ ("X-GitHub-Api-Version" :> H_api_version),
     body |-> None]

\* A variant that sends the request again when the transport fails (not the
\* source's behaviour).
github_get_retry(token, path, resp) ==
    [requests |-> IF resp.kind = "fail"
                  THEN <<get_request(token, path), get_request(token, path)>>
                  ELSE <<get_request(token, path)>>,
     result |-> parse_body(resp)]

github_get(token, path, resp) ==
    [requests |-> <<get_request(token, path)>>,
     result |-> parse_body(resp)]

github_post(token, path, body, resp) ==
    [requests |-> << [method |-> "POST",
                      url |-> U_api \o path,
                      headers |-> ("Authorization" :> (H_bearer \o token))
                                  @@ ("Accept" :> H_accept)
                                  @@ ("User-Agent" :> H_user_agent)
                                  @@ ("X-GitHub-Api-Version" :> H_api_version)
                                  @@ ("Content-Type" :> H_content_type),
                      body |-> body] >>,
     result |-> parse_body(resp)]

\* A handler's early return of json!({"error": msg}): no request is made.
rejected(msg) ==
    [requests |-> <<>>, result |-> Ok(error_object(msg))]

---------------------------------------------------------------------------
\* Tool implementations.  Each returns the requests it issued and its FnResult:
\* `github_get(..)?` forwards the helper's Err, and Ok(Json(DataType::from_json(data)))
\* returns the parsed response as it is.

list_repos(token, args, resp) ==
    LET owner == str_or(get(args, "owner"), <<>>)
        path == IF is_empty(owner) THEN P_user_repos
                ELSE P_users \o owner \o P_repos_query
    IN  github_get(token, path, resp)

get_repo(token, args, resp) ==
    LET owner == str_or(get(args, "owner"), <<>>)
        repo == str_or(get(args, "repo"), <<>>)
    IN  IF is_empty(owner) \/ is_empty(repo)
        THEN rejected(E_owner_repo)
        ELSE github_get(token, P_repos \o owner \o P_slash \o repo, resp)

list_issues(token, args, resp) ==
    LET owner == str_or(get(args, "owner"), <<>>)
        repo == str_or(get(args, "repo"), <<>>)
        state == str_or(get(args, "state"), V_open)
    IN  IF is_empty(owner) \/ is_empty(repo)
        THEN rejected(E_owner_repo)
        ELSE github_get(token,
                        P_repos \o owner \o P_slash \o repo \o P_issues_state
                            \o state \o P_per_page_30,
                        resp)

create_issue(token, args, resp) ==
    LET owner == str_or(get(args, "owner"), <<>>)
        repo == str_or(get(args, "repo"), <<>>)
        title == str_or(get(args, "title"), <<>>)
        body_text == str_or(get(args, "body"), <<>>)
    IN  IF is_empty(owner) \/ is_empty(repo) \/ is_empty(title)
        THEN rejected(E_owner_repo_title)
        ELSE github_post(token,
                         P_repos \o owner \o P_slash \o repo \o P_issues,
                         JObj([title |-> JStr(title), body |-> JStr(body_text)]),
                         resp)

list_prs(token, args, resp) ==
    LET owner == str_or(get(args, "owner"), <<>>)
        repo == str_or(get(args, "repo"), <<>>)
        state == str_or(get(args, "state"), V_open)
    IN  IF is_empty(owner) \/ is_empty(repo)
        THEN rejected(E_owner_repo)
        ELSE github_get(token,
                        P_repos \o owner \o P_slash \o repo \o P_pulls_state
                            \o state \o P_per_page_30,
                        resp)

get_pr(token, args, resp) ==
    LET owner == str_or(get(args, "owner"), <<>>)
        repo == str_or(get(args, "repo"), <<>>)
        number == IF get(args, "number").t = "none" THEN <<>>
                  ELSE to_string(get(args, "number"))
    IN  IF is_empty(owner) \/ is_empty(repo) \/ is_empty(number)
        THEN rejected(E_owner_repo_number)
        ELSE github_get(token,
                        P_repos \o owner \o P_slash \o repo \o P_pulls
                            \o trim_matches(number),
                        resp)

get_file(token, args, resp) ==
    LET owner == str_or(get(args, "owner"), <<>>)
        repo == str_or(get(args, "repo"), <<>>)
        path == str_or(get(args, "path"), <<>>)
        branch == str_or(get(args, "branch"), V_main)
    IN  IF is_empty(owner) \/ is_empty(repo) \/ is_empty(path)
        THEN rejected(E_owner_repo_path)
        ELSE github_get(token,
                        P_repos \o owner \o P_slash \o repo \o P_contents
                            \o path \o P_ref \o branch,
                        resp)

search_code(token, args, resp) ==
    LET query == str_or(get(args, "query"), <<>>)
    IN  IF is_empty(query)
        THEN rejected(E_query)
        ELSE github_get(token, P_search \o replace_space(query) \o P_per_page_20, resp)

---------------------------------------------------------------------------
\* process

\* magi_pdk::get_config().unwrap_or_default()
get_config ==
    value_or_null(store)

\* A variant that matches a tool by its prefix (not the source's behaviour).
route_prefix(tool) ==
    CASE starts_with(tool, T_list_repos) -> "list_repos"
      [] starts_with(tool, T_get_repo) -> "get_repo"
      [] starts_with(tool, T_list_issues) -> "list_issues"
      [] starts_with(tool, T_create_issue) -> "create_issue"
      [] starts_with(tool, T_list_prs) -> "list_prs"
      [] starts_with(tool, T_get_pr) -> "get_pr"
      [] starts_with(tool, T_get_file) -> "get_file"
      [] starts_with(tool, T_search_code) -> "search_code"
      [] OTHER -> "_"

\* The arm of `match tool.as_str()` that tool selects; "_" is the default arm.
route(tool) ==
    CASE tool = T_list_repos -> "list_repos"
      [] tool = T_get_repo -> "get_repo"
      [] tool = T_list_issues -> "list_issues"
      [] tool = T_create_issue -> "create_issue"
      [] tool = T_list_prs -> "list_prs"
      [] tool = T_get_pr -> "get_pr"
      [] tool = T_get_file -> "get_file"
      [] tool = T_search_code -> "search_code"
      [] OTHER -> "_"

dispatch(tool, token, args, resp) ==
    CASE route(tool) = "list_repos" -> list_repos(token, args, resp)
      [] route(tool) = "get_repo" -> get_repo(token, args, resp)
      [] route(tool) = "list_issues" -> list_issues(token, args, resp)
      [] route(tool) = "create_issue" -> create_issue(token, args, resp)
      [] route(tool) = "list_prs" -> list_prs(token, args, resp)
      [] route(tool) = "get_pr" -> get_pr(token, args, resp)
      [] route(tool) = "get_file" -> get_file(token, args, resp)
      [] route(tool) = "search_code" -> search_code(token, args, resp)
      [] OTHER -> rejected(E_unknown_tool \o tool)

\* A variant that refuses to dispatch until an init has succeeded (not the
\* source's behaviour).
process_after_init(input, resp) ==
    LET tool == str_or(get(input, "tool"), <<>>)
        args == value_or_null(get(input, "args"))
        token == str_or(get(get_config, "github_token"), <<>>)
        out == IF initResult = "success"
               THEN dispatch(tool, token, args, resp)
               ELSE rejected(E_token_required)
    IN  [requests |-> out.requests, logs |-> <<>>, result |-> out.result]

process(input, resp) ==
    LET tool == str_or(get(input, "tool"), <<>>)
        args == value_or_null(get(input, "args"))
        token == str_or(get(get_config, "github_token"), <<>>)
        out == dispatch(tool, token, args, resp)
    IN  [requests |-> out.requests, logs |-> <<>>, result |-> out.result]

---------------------------------------------------------------------------
\* The host: the inputs it passes, the configurations it holds, and what its
\* HTTP transport answers.

\* A JSON object holding the keys of c whose value is not None.
Present(c) ==
    JObj([k \in {x \in DOMAIN c : c[x].t # "none"} |-> c[k]])

\* Texts of at most n characters over alphabet A.
RECURSIVE TextsUpTo(_, _)
TextsUpTo(A, n) ==
    IF n = 0 THEN {<<>>}
    ELSE LET shorter == TextsUpTo(A, n - 1)
         IN  shorter \cup {Append(s, c) : s \in shorter, c \in A}

ToolNames ==
    {T_list_repos, T_get_repo, T_list_issues, T_create_issue,
     T_list_prs, T_get_pr, T_get_file, T_search_code}

\* Names no arm matches: another tool, a different case, a longer and a
\* prefixed variant of a known name.
OtherNames ==
    {X_delete_repo, <<"G">> \o Tail(T_get_repo), T_get_repo \o <<"s">>,
     <<"x">> \o T_search_code}

ToolValues ==
    {None, JInt(7), JStr(<<>>)} \cup {JStr(t) : t \in ToolNames \cup OtherNames}

\* The keys a tool's handler reads from args.
Reads(tool) ==
    CASE tool = T_list_repos -> {"owner"}
      [] tool = T_get_repo -> {"owner", "repo"}
      [] tool = T_list_issues -> {"owner", "repo", "state"}
      [] tool = T_create_issue -> {"owner", "repo", "title", "body"}
      [] tool = T_list_prs -> {"owner", "repo", "state"}
      [] tool = T_get_pr -> {"owner", "repo", "number"}
      [] tool = T_get_file -> {"owner", "repo", "path", "branch"}
      [] tool = T_search_code -> {"query"}
      [] OTHER -> {"owner", "query"}

Nums == (0 - 1)..MaxNum

\* What the host may put under key k: nothing, a non-string, the empty string,
\* a non-empty string.
FieldValues(k) ==
    CASE k = "owner" -> {None, JInt(7), JStr(<<>>), JStr(X_owner)}
      [] k = "repo" -> {None, JInt(7), JStr(<<>>), JStr(X_repo)}
      [] k = "state" -> {None, JInt(7), JStr(<<>>), JStr(X_closed)}
      [] k = "title" -> {None, JInt(7), JStr(<<>>), JStr(X_title)}
      [] k = "body" -> {None, JInt(7), JStr(<<>>), JStr(X_body)}
      [] k = "path" -> {None, JInt(7), JStr(<<>>), JStr(X_path)}
      [] k = "branch" -> {None, JInt(7), JStr(<<>>), JStr(X_branch)}
      [] k = "number" -> {None, JNull, JStr(<<>>)}
                             \cup {JInt(n) : n \in Nums}
                             \cup {JStr(IntText(n)) : n \in Nums}
      [] k = "query" -> {None, JInt(7)}
                            \cup {JStr(s) : s \in TextsUpTo({"a", " "}, MaxLen)}

Supplied(tool, k) ==
    IF k \in Reads(tool) THEN FieldValues(k) ELSE {None}

\* The args the host passes with tool: no args at all, null, or an object.
ArgsValues(tool) ==
    {None, JNull} \cup
    {Present([owner |-> o, repo |-> r, state |-> s, title |-> t, body |-> b,
              number |-> n, path |-> p, branch |-> br, query |-> q]) :
        o \in Supplied(tool, "owner"), r \in Supplied(tool, "repo"),
        s \in Supplied(tool, "state"), t \in Supplied(tool, "title"),
        b \in Supplied(tool, "body"), n \in Supplied(tool, "number"),
        p \in Supplied(tool, "path"), br \in Supplied(tool, "branch"),
        q \in Supplied(tool, "query")}

ProcessInputs ==
    UNION {{Present([tool |-> tv, args |-> a]) :
                a \in ArgsValues(str_or(tv, <<>>))} : tv \in ToolValues}

TokenValues ==
    {None, JInt(7), JStr(<<>>), JStr(X_token)}

ConfigValues ==
    {JNull} \cup {Present([github_token |-> v]) : v \in TokenValues}

\* get_config() fails (None) or yields a configuration.
StoreValues ==
    {None} \cup ConfigValues

InitInputs ==
    {Present([config |-> c]) : c \in {None} \cup ConfigValues}

Responses ==
    {[kind |-> "fail", error |-> X_refused],
     [kind |-> "body", json |-> FALSE, detail |-> X_expected],
     [kind |-> "body", json |-> TRUE, value |-> JArr(<<>>)],
     [kind |-> "body", json |-> TRUE,
      value |-> JObj([message |-> JStr(X_not_found)])]}

---------------------------------------------------------------------------
\* The state machine.

Idle == [op |-> "idle"]

Invocation(op, input, responses, out) ==
    [op |-> op, input |-> input, requests |-> out.requests,
     responses |-> responses, logs |-> out.logs, result |-> out.result]

Init ==
    /\ store \in StoreValues
    /\ initResult = "none"
    /\ calls = 0
    /\ httpCalls = 0
    /\ inv = Idle

\* The host changes the configuration it holds.
SetConfig ==
    /\ inv.op = "idle"
    /\ \E c \in StoreValues : c # store /\ store' = c
    /\ UNCHANGED <<initResult, calls, httpCalls, inv>>

Describe ==
    /\ inv.op = "idle"
    /\ inv' = Invocation("describe", None, <<>>, describe)
    /\ UNCHANGED <<store, initResult, calls, httpCalls>>

ConfigSchema ==
    /\ inv.op = "idle"
    /\ inv' = Invocation("config_schema", None, <<>>, config_schema)
    /\ UNCHANGED <<store, initResult, calls, httpCalls>>

InitCall ==
    /\ inv.op = "idle"
    /\ \E input \in InitInputs :
          LET out == init(input)
          IN  /\ inv' = Invocation("init", input, <<>>, out)
              /\ initResult' = IF "success" \in DOMAIN out.result.value.m
                               THEN "success" ELSE "error"
    /\ UNCHANGED <<store, calls, httpCalls>>

ProcessCall ==
    /\ inv.op = "idle"
    /\ calls < MaxCalls
    /\ \E input \in ProcessInputs, resp \in Responses :
          LET out == process(input, resp)
          IN  /\ inv' = Invocation("process", input,
                                   [i \in 1..Len(out.requests) |-> resp], out)
              /\ httpCalls' = httpCalls + Len(out.requests)
    /\ calls' = calls + 1
    /\ UNCHANGED <<store, initResult>>

\* The host takes the returned value; the plugin is ready for the next call.
Return ==
    /\ inv.op # "idle"
    /\ inv' = Idle
    /\ UNCHANGED <<store, initResult, calls, httpCalls>>

Next ==
    \/ SetConfig
    \/ Describe
    \/ ConfigSchema
    \/ InitCall
    \/ ProcessCall
    \/ Return

Spec == Init /\ [][Next]_vars

---------------------------------------------------------------------------
\* Vocabulary of the properties: what the host passed in the invocation in
\* flight, and what the specification's table says about it.

\* The tool string: the empty text when the tool key is absent or not a string.
CallTool ==
    IF get(inv.input, "tool").t = "str" THEN get(inv.input, "tool").s ELSE <<>>

\* The value passed under key k of args; None when there is none.
Arg(k) ==
    get(get(inv.input, "args"), k)

\* The only request of the invocation.
Request == inv.requests[1]

\* The required arguments of each tool, as the specification's table lists them.
Required(tool) ==
    CASE tool = D_get_repo -> {"owner", "repo"}
      [] tool = D_list_issues -> {"owner", "repo"}
      [] tool = D_create_issue -> {"owner", "repo", "title"}
      [] tool = D_list_prs -> {"owner", "repo"}
      [] tool = D_get_pr -> {"owner", "repo", "number"}
      [] tool = D_get_file -> {"owner", "repo", "path"}
      [] tool = D_search_code -> {"query"}
      [] OTHER -> {}

\* A field is missing when it is absent, the empty string, or not representable
\* as a non-empty string: for number that is null; for the others, any value
\* that is not a string.
IsMissing(k) ==
    LET v == Arg(k)
    IN  IF k = "number"
        THEN v.t \in {"none", "null"} \/ (v.t = "str" /\ v.s = <<>>)
        ELSE v.t # "str" \/ v.s = <<>>

MissingFields ==
    {k \in Required(CallTool) : IsMissing(k)}

\* The returned value is an object {"error": <message>}.
IsErrorObject(result) ==
    /\ result.kind = "ok"
    /\ result.value.t = "obj"
    /\ DOMAIN result.value.m = {"error"}
    /\ result.value.m["error"].t = "str"

ErrorMessage == inv.result.value.m["error"].s

\* The returned value is the JSON the transport delivered.
IsGitHubResponse ==
    /\ inv.result.kind = "ok"
    /\ Len(inv.responses) = 1
    /\ inv.responses[1].kind = "body"
    /\ inv.responses[1].json
    /\ inv.result.value = inv.responses[1].value

Contains(s, sub) ==
    \E i \in 1..(Len(s) - Len(sub) + 1) : SubSeq(s, i, i + Len(sub) - 1) = sub

FieldText(k) ==
    CASE k = "owner" -> <<"o","w","n","e","r">>
      [] k = "repo" -> <<"r","e","p","o">>
      [] k = "state" -> <<"s","t","a","t","e">>
      [] k = "title" -> <<"t","i","t","l","e">>
      [] k = "body" -> <<"b","o","d","y">>
      [] k = "number" -> <<"n","u","m","b","e","r">>
      [] k = "path" -> <<"p","a","t","h">>
      [] k = "branch" -> <<"b","r","a","n","c","h">>
      [] k = "query" -> <<"q","u","e","r","y">>

FieldNames ==
    {"owner", "repo", "state", "title", "body", "number", "path", "branch", "query"}

\* The fields an error message names.
NamedFields(msg) ==
    {k \in FieldNames : Contains(msg, FieldText(k))}

\* process returned a handler's "... required" error.
RejectedForMissing ==
    /\ inv.op = "process"
    /\ Required(CallTool) # {}
    /\ inv.requests = <<>>
    /\ IsErrorObject(inv.result)

---------------------------------------------------------------------------
\* C1 (stated as claimed): every process invocation returns either GitHub's
\* parsed JSON response or an {"error": <message>} object, and never ends in a
\* propagated error.
C1_NeverPropagates ==
    inv.op = "process" =>
        /\ inv.result.kind = "ok"
        /\ IsErrorObject(inv.result) \/ IsGitHubResponse

\* C2 (stated as claimed): when a required field of one of the seven tools with
\* required arguments is missing, process returns an {"error": ...} object and
\* issues no HTTP request.
C2_MissingRejected ==
    (inv.op = "process" /\ MissingFields # {}) =>
        /\ IsErrorObject(inv.result)
        /\ Len(inv.requests) = 0

\* C3 (stated as claimed): the error message of a rejection names exactly the
\* fields that are missing in that invocation.
C3_NamesExactlyMissing ==
    RejectedForMissing => NamedFields(ErrorMessage) = MissingFields

\* C3 (amended): the error message of a rejection names all of the tool's
\* required fields, whichever of them are missing.
C3_NamesAllRequired ==
    RejectedForMissing => NamedFields(ErrorMessage) = Required(CallTool)

\* get_repo rejected with owner present and only repo omitted.
C3_Witness ==
    /\ RejectedForMissing
    /\ CallTool = D_get_repo
    /\ Arg("owner") = JStr(X_owner)
    /\ Arg("repo") = None

\* C4: an invocation of process issues at most one HTTP request, exactly one
\* when the tool is known and none of its required fields is missing; after n
\* invocations at most n requests have been issued.
C4_AtMostOneCall ==
    /\ httpCalls <= calls
    /\ inv.op = "process" =>
          /\ Len(inv.requests) <= 1
          /\ (CallTool \in ToolNames /\ MissingFields = {}) => Len(inv.requests) = 1

\* The last allowed invocation issued a request after an earlier one issued none.
C4_Witness ==
    /\ inv.op = "process"
    /\ Len(inv.requests) = 1
    /\ calls = MaxCalls
    /\ httpCalls = 1


---------------------------------------------------------------------------
\* The texts of the specification's per-tool table and error contract.

\* "https://api.github.com"
Tbl_api ==
    <<"h","t","t","p","s",":","/","/","a","p","i",".","g","i","t","h","u","b",".","c","o","m">>
\* "/user/repos?per_page=30&sort=updated"
Tbl_user_repos ==
    <<"/","u","s","e","r","/","r","e","p","o","s","?","p","e","r","_","p","a","g","e","=","3","0","&","s","o","r","t","=","u","p","d","a","t","e","d">>
\* "/users/"
Tbl_users ==
    <<"/","u","s","e","r","s","/">>
\* "/repos?per_page=30&sort=updated"
Tbl_repos_query ==
    <<"/","r","e","p","o","s","?","p","e","r","_","p","a","g","e","=","3","0","&","s","o","r","t","=","u","p","d","a","t","e","d">>
\* "/repos/"
Tbl_repos ==
    <<"/","r","e","p","o","s","/">>
\* "/issues?state="
Tbl_issues_state ==
    <<"/","i","s","s","u","e","s","?","s","t","a","t","e","=">>
\* "&per_page=30"
Tbl_per_page_30 ==
    <<"&","p","e","r","_","p","a","g","e","=","3","0">>
\* "/issues"
Tbl_issues ==
    <<"/","i","s","s","u","e","s">>
\* "/pulls?state="
Tbl_pulls_state ==
    <<"/","p","u","l","l","s","?","s","t","a","t","e","=">>
\* "/pulls/"
Tbl_pulls ==
    <<"/","p","u","l","l","s","/">>
\* "/contents/"
Tbl_contents ==
    <<"/","c","o","n","t","e","n","t","s","/">>
\* "?ref="
Tbl_ref ==
    <<"?","r","e","f","=">>
\* "/search/code?q="
Tbl_search ==
    <<"/","s","e","a","r","c","h","/","c","o","d","e","?","q","=">>
\* "&per_page=20"
Tbl_per_page_20 ==
    <<"&","p","e","r","_","p","a","g","e","=","2","0">>
\* "open"
Tbl_open ==
    <<"o","p","e","n">>
\* "main"
Tbl_main ==
    <<"m","a","i","n">>
\* "unknown tool: "
Tbl_unknown_tool ==
    <<"u","n","k","n","o","w","n"," ","t","o","o","l",":"," ">>
\* "github_token is required"
Tbl_token_required ==
    <<"g","i","t","h","u","b","_","t","o","k","e","n"," ","i","s"," ","r","e","q","u","i","r","e","d">>
\* "Bearer "
Tbl_bearer ==
    <<"B","e","a","r","e","r"," ">>

\* The bare textual form of a JSON scalar: a string's characters, a number's
\* digits.
BareText(v) ==
    IF v.t = "str" THEN v.s ELSE to_string(v)

\* An optional argument read as "the default when omitted, else the supplied
\* value unchanged".
WhenOmitted(k, d) ==
    IF Arg(k).t = "none" THEN d ELSE BareText(Arg(k))

\* An optional argument read as "the default when omitted or not a JSON string,
\* else the supplied string unchanged".
WhenNotString(k, d) ==
    IF Arg(k).t = "str" THEN Arg(k).s ELSE d

Plus(s) ==
    [i \in DOMAIN s |-> IF s[i] = " " THEN "+" ELSE s[i]]

\* The table's request for the invocation in flight; Opt reads the optional
\* arguments.
TableRequest(Opt(_, _)) ==
    LET repo_path == Tbl_repos \o BareText(Arg("owner")) \o <<"/">> \o BareText(Arg("repo"))
        Get(path) == [method |-> "GET", url |-> Tbl_api \o path, body |-> None]
    IN  CASE CallTool = D_list_repos ->
                Get(IF Opt("owner", <<>>) = <<>> THEN Tbl_user_repos
                    ELSE Tbl_users \o Opt("owner", <<>>) \o Tbl_repos_query)
          [] CallTool = D_get_repo ->
                Get(repo_path)
          [] CallTool = D_list_issues ->
                Get(repo_path \o Tbl_issues_state \o Opt("state", Tbl_open) \o Tbl_per_page_30)
          [] CallTool = D_create_issue ->
                [method |-> "POST", url |-> Tbl_api \o repo_path \o Tbl_issues,
                 body |-> JObj([title |-> Arg("title"),
                                body |-> JStr(Opt("body", <<>>))])]
          [] CallTool = D_list_prs ->
                Get(repo_path \o Tbl_pulls_state \o Opt("state", Tbl_open) \o Tbl_per_page_30)
          [] CallTool = D_get_pr ->
                Get(repo_path \o Tbl_pulls \o BareText(Arg("number")))
          [] CallTool = D_get_file ->
                Get(repo_path \o Tbl_contents \o BareText(Arg("path")) \o Tbl_ref
                        \o Opt("branch", Tbl_main))
          [] CallTool = D_search_code ->
                Get(Tbl_search \o Plus(BareText(Arg("query"))) \o Tbl_per_page_20)

\* A known tool invoked with none of its required fields missing.
ValidCall ==
    /\ inv.op = "process"
    /\ CallTool \in ToolNames
    /\ MissingFields = {}

IssuesRequest(expected) ==
    /\ Len(inv.requests) = 1
    /\ Request.method = expected.method
    /\ Request.url = expected.url
    /\ Request.body = expected.body

\* C5 (stated as claimed): a valid invocation issues the table's method and
\* path, an optional argument taking its default when it is omitted and the
\* supplied value unchanged otherwise.
C5_TableWhenOmitted ==
    ValidCall => IssuesRequest(TableRequest(WhenOmitted))

\* C5 (amended): a valid invocation issues the table's method and path, an
\* optional argument (owner of list_repos, state, branch, body) taking its
\* default when it is omitted or is not a JSON string and the supplied string
\* unchanged otherwise.
C5_TableWhenNotString ==
    ValidCall => IssuesRequest(TableRequest(WhenNotString))

\* search_code issued a request for a query holding a space.
C5_Witness ==
    /\ ValidCall
    /\ CallTool = D_search_code
    /\ Arg("query") = JStr(<<"a", " ">>)
    /\ Len(inv.requests) = 1

\* C6: get_pr given number as the JSON integer n or as the JSON string of n's
\* decimal digits requests the same path /repos/{owner}/{repo}/pulls/{n}, with
\* no quote character in it.
C6_NumberCoerced ==
    (ValidCall /\ CallTool = D_get_pr) =>
        \A n \in Nums :
            Arg("number") \in {JInt(n), JStr(IntText(n))} =>
                /\ Len(inv.requests) = 1
                /\ Request.url = Tbl_api \o Tbl_repos \o Arg("owner").s \o <<"/">>
                                     \o Arg("repo").s \o Tbl_pulls \o IntText(n)
                /\ \A i \in DOMAIN Request.url : Request.url[i] # "\""

\* get_pr issued a request for number given as the string "10".
C6_Witness ==
    /\ ValidCall
    /\ CallTool = D_get_pr
    /\ Arg("number") = JStr(<<"1", "0">>)
    /\ Len(inv.requests) = 1

\* C7: a tool string that is none of the eight known names returns
\* {"error": "unknown tool: <tool>"} and issues no HTTP request.
C7_UnknownTool ==
    (inv.op = "process" /\ CallTool \notin ToolNames) =>
        /\ inv.result = Ok(JObj([error |-> JStr(Tbl_unknown_tool \o CallTool)]))
        /\ inv.requests = <<>>

\* A longer variant of a known name, passed with that tool's valid arguments.
C7_Witness ==
    /\ inv.op = "process"
    /\ CallTool = T_get_repo \o <<"s">>
    /\ Arg("owner") = JStr(X_owner)
    /\ inv.requests = <<>>

\* The github_token of the configuration passed to init.
InitToken ==
    get(get(inv.input, "config"), "github_token")

\* C8: init returns {"error": "github_token is required"} exactly when the
\* configuration holds no github_token or one that is not a string, and
\* {"success": true} otherwise; it logs one line on success and none on error,
\* issues no HTTP request and never ends in a propagated error.
C8_InitContract ==
    inv.op = "init" =>
        /\ inv.result.kind = "ok"
        /\ inv.requests = <<>>
        /\ (inv.result.value = JObj([error |-> JStr(Tbl_token_required)]))
               <=> (InitToken.t # "str")
        /\ InitToken.t = "str" =>
               /\ inv.result.value = JObj([success |-> JBool(TRUE)])
               /\ Len(inv.logs) = 1
        /\ InitToken.t # "str" => Len(inv.logs) = 0

\* init succeeded on a token that is the empty string.
C8_Witness ==
    /\ inv.op = "init"
    /\ InitToken = JStr(<<>>)
    /\ initResult = "success"

\* The github_token the store holds now: the empty text when absent or not a
\* string.
StoreToken ==
    IF get(store, "github_token").t = "str" THEN get(store, "github_token").s ELSE <<>>

\* C9: what a process invocation does is determined by its tool and args, the
\* store's content at that time and the HTTP response, whatever init did
\* before; the bearer token it sends is the store's github_token.
C9_NoRetainedState ==
    inv.op = "process" =>
        /\ \E resp \in Responses :
              LET out == dispatch(CallTool, StoreToken,
                                  value_or_null(get(inv.input, "args")), resp)
              IN  /\ inv.requests = out.requests
                  /\ inv.result = out.result
        /\ ValidCall => Len(inv.requests) = 1
        /\ \A i \in DOMAIN inv.requests :
              inv.requests[i].headers["Authorization"] = Tbl_bearer \o StoreToken

\* A request issued after a failed init, carrying the store's token.
C9_Witness ==
    /\ inv.op = "process"
    /\ initResult = "error"
    /\ Len(inv.requests) = 1
    /\ Request.headers["Authorization"] = Tbl_bearer \o X_token

\* The tool names the descriptor lists.
DescribedNames ==
    {describe_tools[i].m["name"].s : i \in DOMAIN describe_tools}

\* C10: the names describe lists are the names process dispatches to a handler,
\* eight on each side.
C10_DescriptorInSync ==
    /\ Len(describe_tools) = 8
    /\ Cardinality(DescribedNames) = 8
    /\ {t \in DescribedNames \cup ToolNames \cup OtherNames : route(t) # "_"} = DescribedNames
    /\ inv.op = "describe" =>
          {inv.result.value.m["tools"].a[i].m["name"].s :
              i \in DOMAIN inv.result.value.m["tools"].a} = ToolNames
    /\ inv.op = "process" =>
          (CallTool \in DescribedNames)
              <=> (inv.result # Ok(JObj([error |-> JStr(Tbl_unknown_tool \o CallTool)])))

\* The last name of the descriptor reached its handler.
C10_Witness ==
    /\ inv.op = "process"
    /\ CallTool = D_search_code
    /\ Len(inv.requests) = 1


=============================================================================
